---- MODULE Spec2Model ----
(***************************************************************************)
(* A model of main.go: three HTTP servers started by main (a bare handler  *)
(* on :8080, a ServeMux with the time and greeting routes on :8081, a      *)
(* ServeMux with the logging middleware on :8083), the listener goroutines *)
(* and their WaitGroup, and the handling of single requests.               *)
(*                                                                         *)
(* Strings that the code inspects character by character (the Accept      *)
(* header) are sequences of one-character strings.  A response body is a   *)
(* sequence of lexical tokens [t |-> kind, v |-> value].                   *)
(***************************************************************************)
EXTENDS Integers, Sequences, FiniteSets, TLC

\* ------------------------------------------------------------------ bounds

\* Number of requests that may be in flight at once.
NReq == 2

\* ------------------------------------------------------------ time.Time

\* The instants time.Now() may return (Unix seconds):
\* 1970-01-01T00:00:00Z, 2000-02-28T23:59:59Z, 2024-03-05T10:15:30Z,
\* 2024-12-31T23:59:59Z.
Instants == {0, 951782399, 1709633730, 1735689599}

\* The zone offsets (seconds east of UTC) of the process's local time zone.
LocalOffsets == {0, 3600, -18000}

\* A time.Time: an instant and the offset of its location.
Time(unix, offset) == [unix |-> unix, offset |-> offset]

\* time.Time.UTC: the same instant, location UTC.
UTC(t) == Time(t.unix, 0)

\* Seconds and days of the wall clock the time displays.
WallSeconds(t) == t.unix + t.offset
WallDays(t) == WallSeconds(t) \div 86400
SecondOfDay(t) == WallSeconds(t) % 86400

\* The civil date of a day number (days since 1970-01-01), as time.Time.Date
\* computes it from the absolute day count (400-, 100-, 4- and 1-year cycles).
CivilFromDays(days) ==
    LET z   == days + 719468
        era == z \div 146097
        doe == z - era * 146097
        yoe == (doe - doe \div 1460 + doe \div 36524 - doe \div 146096) \div 365
        doy == doe - (365 * yoe + yoe \div 4 - yoe \div 100)
        mp  == (5 * doy + 2) \div 153
        d   == doy - (153 * mp + 2) \div 5 + 1
        m   == IF mp < 10 THEN mp + 3 ELSE mp - 9
        y   == yoe + era * 400 + (IF m <= 2 THEN 1 ELSE 0)
    IN  [year |-> y, month |-> m, day |-> d]

Year(t)   == CivilFromDays(WallDays(t)).year
MonthNumber(t) == CivilFromDays(WallDays(t)).month
Day(t)    == CivilFromDays(WallDays(t)).day
Hour(t)   == SecondOfDay(t) \div 3600
Minute(t) == (SecondOfDay(t) % 3600) \div 60
Second(t) == SecondOfDay(t) % 60

\* time.Weekday.String and time.Month.String.
WeekdayNames == <<"Sunday", "Monday", "Tuesday", "Wednesday", "Thursday", "Friday", "Saturday">>
MonthNames == <<"January", "February", "March", "April", "May", "June", "July", "August", "September", "October", "November", "December">>

\* time.Time.Weekday: 1970-01-01 was a Thursday.
Weekday(t) == WeekdayNames[((WallDays(t) + 4) % 7) + 1]
Month(t) == MonthNames[MonthNumber(t)]

\* ------------------------------------------------------------ body tokens

Punct(c)    == [t |-> "punct", v |-> c]
Num(n, w)   == [t |-> "num", v |-> n, w |-> w]
Str(s)      == [t |-> "string", v |-> s]
Text(s)     == [t |-> "text", v |-> s]

\* The zone suffix of RFC 3339: "Z" for UTC, otherwise the signed hh:mm.
ZoneSuffix(t) ==
    IF t.offset = 0 THEN <<Punct("Z")>>
    ELSE LET a == IF t.offset < 0 THEN -t.offset ELSE t.offset
         IN  <<Punct(IF t.offset < 0 THEN "-" ELSE "+"), Num(a \div 3600, 2), Punct(":"), Num((a % 3600) \div 60, 2)>>

\* time.Time.Format(time.RFC3339): "2006-01-02T15:04:05Z07:00".
FormatRFC3339(t) ==
    <<Num(Year(t), 4), Punct("-"), Num(MonthNumber(t), 2), Punct("-"), Num(Day(t), 2), Punct("T"),
      Num(Hour(t), 2), Punct(":"), Num(Minute(t), 2), Punct(":"), Num(Second(t), 2)>> \o ZoneSuffix(t)

\* json.Marshal of one struct field: the tag name, a colon, the value.
JsonMember(key, value) == <<Str(key), Punct(":"), value>>

\* buildJson: json.Marshal of the anonymous struct, its fields in declaration order.
buildJson(now) ==
    <<Punct("{")>>
    \o JsonMember("day_of_week", Str(Weekday(now))) \o <<Punct(",")>>
    \o JsonMember("day_of_month", Num(Day(now), 0)) \o <<Punct(",")>>
    \o JsonMember("month", Str(Month(now))) \o <<Punct(",")>>
    \o JsonMember("year", Num(Year(now), 0)) \o <<Punct(",")>>
    \o JsonMember("hour", Num(Hour(now), 0)) \o <<Punct(",")>>
    \o JsonMember("minute", Num(Minute(now), 0)) \o <<Punct(",")>>
    \o JsonMember("second", Num(Second(now), 0))
    \o <<Punct("}")>>

\* ------------------------------------------------------------ strings

\* The header values a client may send as Accept, character by character.
\* "LONG_S" stands for U+017F (LATIN SMALL LETTER LONG S), whose upper case is S.
AcceptValues ==
    { <<>>,
      <<"J", "S", "O", "N">>,
      <<"j", "s", "o", "n">>,
      <<"J", "s", "o", "N">>,
      <<"j", "LONG_S", "o", "n">>,
      <<"J", "S", "O">>,
      <<"J", "S", "O", "N", "X">>,
      <<" ", "J", "S", "O", "N">>,
      <<"X", "M", "L">>,
      <<"a", "/", "j", "s", "o", "n">> }

\* unicode.ToUpper on the characters above.
ToUpperRune(c) ==
    CASE c = "j" -> "J" [] c = "s" -> "S" [] c = "o" -> "O" [] c = "n" -> "N"
      [] c = "a" -> "A" [] c = "x" -> "X" [] c = "m" -> "M" [] c = "l" -> "L"
      [] c = "LONG_S" -> "S"
      [] OTHER -> c

\* strings.ToUpper.
ToUpper(s) == [i \in 1..Len(s) |-> ToUpperRune(s[i])]

\* ------------------------------------------------------------ http.ServeMux

\* Number of path segments a request target may have.
MaxSegs == 2

\* A request path is the sequence of the segments between its slashes: "/" is
\* <<"">>, "/log" is <<"log">>, "/log/" is <<"log", "">>, "//log" is <<"", "log">>.
PathSegs == {"", ".", "..", "log", "hello", "Ada"}
Paths == UNION {[1..n -> PathSegs] : n \in 1..MaxSegs}
Methods == {"GET", "POST", "CONNECT"}

\* Pattern segments: a literal, a {name} wildcard, the trailing slash (an
\* anonymous wildcard for the rest of the path).
Lit(s)     == [k |-> "lit", v |-> s]
Wild(name) == [k |-> "wild", v |-> name]
Multi      == [k |-> "multi", v |-> ""]

\* "/log" registered for GET alone.
LogPatternGET == [str |-> "GET /log", method |-> "GET", segs |-> <<Lit("log")>>, handler |-> "IpAddressLogger"]

\* The patterns main registers; none names a method, none names a host.
RootPattern  == [str |-> "/", method |-> "", segs |-> <<Multi>>, handler |-> "time"]
HelloPattern == [str |-> "/hello/{name}", method |-> "", segs |-> <<Lit("hello"), Wild("name")>>, handler |-> "hello"]
LogPattern   == [str |-> "/log", method |-> "", segs |-> <<Lit("log")>>, handler |-> "IpAddressLogger"]

\* path.Clean on a rooted path: empty and "." segments are dropped, ".."
\* drops the segment before it (nothing at the root).
RECURSIVE Clean(_, _)
Clean(segs, acc) ==
    IF segs = <<>> THEN acc
    ELSE LET s == Head(segs)
         IN  CASE s = "" \/ s = "." -> Clean(Tail(segs), acc)
               [] s = ".." -> Clean(Tail(segs), IF acc = <<>> THEN acc ELSE SubSeq(acc, 1, Len(acc) - 1))
               [] OTHER -> Clean(Tail(segs), Append(acc, s))

\* net/http cleanPath: path.Clean, with the trailing slash put back.
cleanPath(p) ==
    LET np == Clean(p, <<>>)
    IN  IF np = <<>> THEN <<"">>
        ELSE IF p[Len(p)] = "" THEN Append(np, "") ELSE np

\* Whether the pattern's segments match the path: a literal matches the equal
\* segment, a wildcard any segment but the trailing slash, the trailing-slash
\* pattern segment whatever is left.
RECURSIVE matchPath(_, _)
matchPath(segs, path) ==
    IF segs = <<>> THEN path = <<>>
    ELSE IF path = <<>> THEN FALSE
    ELSE LET s == Head(segs)
         IN  CASE s.k = "multi" -> TRUE
               [] s.k = "lit" -> Head(path) = s.v /\ matchPath(Tail(segs), Tail(path))
               [] OTHER -> Head(path) # "" /\ matchPath(Tail(segs), Tail(path))

\* A pattern without a method matches every method; GET also matches HEAD.
matchMethod(pat, method) ==
    \/ pat.method = ""
    \/ pat.method = method
    \/ pat.method = "GET" /\ method = "HEAD"

\* The routing tree prefers a literal child to a wildcard child to a
\* trailing-slash child, segment by segment.
Rank(seg) == CASE seg.k = "lit" -> 3 [] seg.k = "wild" -> 2 [] OTHER -> 1
Prefer(p, q) ==
    \E i \in 1..Len(p.segs) :
        /\ i <= Len(q.segs)
        /\ \A j \in 1..(i - 1) : p.segs[j].k = q.segs[j].k
        /\ Rank(p.segs[i]) > Rank(q.segs[i])

NoMatch == [str |-> "", method |-> "", segs |-> <<>>, handler |-> "none"]

\* routingNode.match: the preferred pattern among those matching, or none.
match(table, method, path) ==
    LET M == {p \in table : matchMethod(p, method) /\ matchPath(p.segs, path)}
    IN  IF M = {} THEN NoMatch
        ELSE CHOOSE p \in M : \A q \in M \ {p} : Prefer(p, q)

\* exactMatch: a match that leaves nothing to a trailing-slash wildcard.
exactMatch(n, path) ==
    /\ n # NoMatch
    /\ \/ n.segs[Len(n.segs)].k # "multi"
       \/ path[Len(path)] = "" /\ Len(n.segs) = Len(path)

\* matchOrRedirect's test: "/tree" is redirected to "/tree/" when only the
\* latter is matched exactly.
redirectToSlash(table, method, path) ==
    /\ ~exactMatch(match(table, method, path), path)
    /\ path[Len(path)] # ""
    /\ exactMatch(match(table, method, Append(path, "")), Append(path, ""))

\* matchingMethods: the methods of the patterns that match the path.
matchingMethods(table, path) ==
    {p.method : p \in {q \in table : q.method # "" /\ matchPath(q.segs, path)}}

\* The values the wildcards of the pattern matched, by name.
Bindings(pat, path) ==
    LET W == {i \in 1..Len(pat.segs) : pat.segs[i].k = "wild"}
    IN  [name \in {pat.segs[i].v : i \in W} |-> path[CHOOSE i \in W : pat.segs[i].v = name]]

\* ServeMux.findHandler: the handler that serves the request, the pattern it
\* matched, and the wildcard values.  Every method but CONNECT has its path cleaned
\* and is redirected when cleaning changed it.
findHandler(table, method, path) ==
    LET cleaned == IF method = "CONNECT" THEN path ELSE cleanPath(path)
        n == match(table, method, cleaned)
    IN  CASE redirectToSlash(table, method, cleaned) ->
               [handler |-> "Redirect", pattern |-> "", matches |-> <<>>, location |-> Append(cleaned, "")]
          [] cleaned # path ->
               [handler |-> "Redirect", pattern |-> n.str, matches |-> <<>>, location |-> cleaned]
          [] n = NoMatch /\ matchingMethods(table, cleaned) # {} ->
               [handler |-> "MethodNotAllowed", pattern |-> "", matches |-> <<>>, location |-> <<>>]
          [] n = NoMatch ->
               [handler |-> "NotFound", pattern |-> "", matches |-> <<>>, location |-> <<>>]
          [] OTHER ->
               [handler |-> n.handler, pattern |-> n.str, matches |-> Bindings(n, cleaned), location |-> <<>>]

\* PathValue finding no value for any name.
PathValueMissing(matches, name) == ""

\* Request.PathValue: the value matched for the name, "" when there is none.
PathValue(matches, name) == IF name \in DOMAIN matches THEN matches[name] ELSE ""

\* Header.Get: the first value of the header, "" when it is absent.
HeaderGet(values) == IF values = <<>> THEN <<>> ELSE values[1]

\* ------------------------------------------------------------ state

Servers == {"s8080", "s8081", "s8083"}
Reqs == 1..NReq

\* Each request in flight has a connection of its own, and so a remote address
\* (IP:port) of its own.
ClientAddrs == <<"10.0.0.1:40001", "10.0.0.2:40002", "10.0.0.1:40003", "10.0.0.3:40004">>
RemoteAddr(r) == ClientAddrs[((r - 1) % Len(ClientAddrs)) + 1]

VARIABLES
    mainPc,      \* main: index of the next statement of MainProgram
    wgCounter,   \* wg: the WaitGroup's counter
    routes,      \* per server, the patterns registered on its ServeMux
    lpc,         \* per server, the position of its listener goroutine
    lerr,        \* per server, the error its ListenAndServe returned
    proc,        \* the process: "running", "panicked" or "exited"
    req,         \* per request, the *http.Request the server built (NoReq: none yet)
    pc,          \* per request, the position of its serving goroutine
    found,       \* per request, what ServeMux.findHandler returned
    now,         \* per request, the time its handler read
    resp,        \* per request, its http.ResponseWriter
    invoked,     \* per request, the handlers entered so far, with their (w, r) arguments
    wr,          \* per request, the write to os.Stdout it is performing
    stdout,      \* os.Stdout: the chunks written so far, in order
    stdoutLock,  \* the write lock of os.Stdout's descriptor: its holder, 0 when free
    stderr,      \* the number of lines slog.Error wrote
    loggers,     \* the number of slog.Logger instances created so far
    mySlog       \* per request, the logger instance of its middleware call (0: none)

lifeVars == <<mainPc, wgCounter, routes, lpc, lerr, proc>>
reqVars == <<req, pc, found, now, resp, invoked, wr, stdout, stdoutLock, stderr, loggers, mySlog>>
vars == <<mainPc, wgCounter, routes, lpc, lerr, proc, req, pc, found, now, resp, invoked, wr, stdout, stdoutLock, stderr, loggers, mySlog>>

NoReq == [server |-> "", method |-> "", path |-> <<>>, accept |-> <<>>, remoteAddr |-> ""]
NoFound == [handler |-> "", pattern |-> "", matches |-> <<>>, location |-> <<>>]
NoTime == Time(0, 0)
NoWrite == [kind |-> "", data |-> <<>>, ret |-> ""]

\* A fresh http.ResponseWriter: no status line yet, nothing written.
NewResponse == [status |-> 0, body |-> <<>>, location |-> <<>>, by |-> "", failed |-> FALSE]

\* ResponseWriter.WriteHeader: the first status code stands.
WriteHeader(w, code) == IF w.status = 0 THEN [w EXCEPT !.status = code] ELSE w

\* ResponseWriter.Write by handler `by`: an implicit WriteHeader(200), then the
\* data; `ok` is whether the connection took it (err == nil).
Write(w, data, by, ok) ==
    [WriteHeader(w, 200) EXCEPT !.body = @ \o data, !.by = by, !.failed = ~ok]

\* ------------------------------------------------------------ main

\* wg.Add(4)
WgDelta == 4

\* main starting the listener of :8081 before it has registered "/hello/{name}".
MainProgramListenEarly == <<"wg.Add", "go8080", "HandleRoot", "go8081", "HandleHello", "HandleLog", "go8083", "wg.Wait">>

\* The statements of main that change state, in program order.
MainProgram == <<"wg.Add", "go8080", "HandleRoot", "HandleHello", "go8081", "HandleLog", "go8083", "wg.Wait">>

\* The server a go statement starts, the server and pattern a Handle statement registers.
GoServer(stmt) == CASE stmt = "go8080" -> "s8080" [] stmt = "go8081" -> "s8081" [] stmt = "go8083" -> "s8083" [] OTHER -> ""
Registers(stmt) ==
    CASE stmt = "HandleRoot" -> [server |-> "s8081", pattern |-> RootPattern]
      [] stmt = "HandleHello" -> [server |-> "s8081", pattern |-> HelloPattern]
      [] stmt = "HandleLog" -> [server |-> "s8083", pattern |-> LogPattern]
      [] OTHER -> [server |-> "", pattern |-> NoMatch]

\* One statement of main.  wg.Wait blocks until the counter is 0; main returns
\* after it, which ends the process.
Main ==
    /\ proc = "running"
    /\ mainPc <= Len(MainProgram)
    /\ LET stmt == MainProgram[mainPc]
       IN  /\ stmt = "wg.Wait" => wgCounter = 0
           /\ wgCounter' = IF stmt = "wg.Add" THEN wgCounter + WgDelta ELSE wgCounter
           /\ routes' = IF Registers(stmt).server # ""
                        THEN [routes EXCEPT ![Registers(stmt).server] = @ \cup {Registers(stmt).pattern}]
                        ELSE routes
           /\ lpc' = IF GoServer(stmt) # "" THEN [lpc EXCEPT ![GoServer(stmt)] = "ListenAndServe"] ELSE lpc
           /\ proc' = IF stmt = "wg.Wait" THEN "exited" ELSE proc
    /\ mainPc' = mainPc + 1
    /\ UNCHANGED <<lerr, reqVars>>

\* ------------------------------------------------------------ listener goroutines

ErrServerClosed == "http: Server closed"

\* What ListenAndServe may return: nothing, the sentinel, the sentinel wrapped,
\* or a listen or accept error.
ServeErrors == {"nil", ErrServerClosed, "serve: http: Server closed", "listen tcp: address already in use"}

Unwrap(err) == IF err = "serve: http: Server closed" THEN ErrServerClosed ELSE "nil"

\* errors.Is: the error or the one it wraps is the target.
errorsIs(err, target) == err = target \/ (Unwrap(err) # "nil" /\ Unwrap(err) = target)

\* err := s.ListenAndServe() returns.
ListenAndServeReturns(s, err) ==
    /\ proc = "running"
    /\ lpc[s] = "ListenAndServe"
    /\ lerr' = [lerr EXCEPT ![s] = err]
    /\ lpc' = [lpc EXCEPT ![s] = "wg.Done"]
    /\ UNCHANGED <<mainPc, wgCounter, routes, proc, reqVars>>

\* wg.Done(): the counter goes down by one; below zero it panics.
WgDone(s) ==
    /\ proc = "running"
    /\ lpc[s] = "wg.Done"
    /\ IF wgCounter = 0
       THEN /\ proc' = "panicked"
            /\ lpc' = [lpc EXCEPT ![s] = "panicked"]
            /\ UNCHANGED wgCounter
       ELSE /\ wgCounter' = wgCounter - 1
            /\ lpc' = [lpc EXCEPT ![s] = "check"]
            /\ UNCHANGED proc
    /\ UNCHANGED <<mainPc, routes, lerr, reqVars>>

\* The check without errors.Is: every error returned panics.
CheckErrAnyError(s) ==
    /\ proc = "running"
    /\ lpc[s] = "check"
    /\ IF lerr[s] # "nil"
       THEN /\ proc' = "panicked"
            /\ lpc' = [lpc EXCEPT ![s] = "panicked"]
       ELSE /\ lpc' = [lpc EXCEPT ![s] = "returned"]
            /\ UNCHANGED proc
    /\ UNCHANGED <<mainPc, wgCounter, routes, lerr, reqVars>>

\* if err != nil { if !errors.Is(err, http.ErrServerClosed) { panic(err) } }
\* An unrecovered panic in a goroutine ends the process.
CheckErr(s) ==
    /\ proc = "running"
    /\ lpc[s] = "check"
    /\ IF lerr[s] # "nil" /\ ~errorsIs(lerr[s], ErrServerClosed)
       THEN /\ proc' = "panicked"
            /\ lpc' = [lpc EXCEPT ![s] = "panicked"]
       ELSE /\ lpc' = [lpc EXCEPT ![s] = "returned"]
            /\ UNCHANGED proc
    /\ UNCHANGED <<mainPc, wgCounter, routes, lerr, reqVars>>

\* ------------------------------------------------------------ os.Stdout

\* The chunk of one write call that one write system call transfers.
Chunk(r, w, part) ==
    [r |-> r, kind |-> w.kind, part |-> part,
     data |-> IF part = 1 THEN SubSeq(w.data, 1, Len(w.data) \div 2)
              ELSE SubSeq(w.data, Len(w.data) \div 2 + 1, Len(w.data))]

\* File.Write starting without waiting for the descriptor's write lock.
WriteFirstUnlocked(r) ==
    /\ proc = "running"
    /\ pc[r] = "os.Stdout.Write"
    /\ stdoutLock' = r
    /\ stdout' = Append(stdout, Chunk(r, wr[r], 1))
    /\ pc' = [pc EXCEPT ![r] = "os.Stdout.Write.rest"]
    /\ UNCHANGED <<lifeVars, req, found, now, resp, invoked, wr, stderr, loggers, mySlog>>

\* File.Write, first half: take the descriptor's write lock, transfer the
\* first chunk.
WriteFirst(r) ==
    /\ proc = "running"
    /\ pc[r] = "os.Stdout.Write"
    /\ stdoutLock = 0
    /\ stdoutLock' = r
    /\ stdout' = Append(stdout, Chunk(r, wr[r], 1))
    /\ pc' = [pc EXCEPT ![r] = "os.Stdout.Write.rest"]
    /\ UNCHANGED <<lifeVars, req, found, now, resp, invoked, wr, stderr, loggers, mySlog>>

\* File.Write, second half: transfer the rest, release the lock, return.
WriteRest(r) ==
    /\ proc = "running"
    /\ pc[r] = "os.Stdout.Write.rest"
    /\ stdout' = Append(stdout, Chunk(r, wr[r], 2))
    /\ stdoutLock' = IF stdoutLock = r THEN 0 ELSE stdoutLock
    /\ pc' = [pc EXCEPT ![r] = wr[r].ret]
    /\ wr' = [wr EXCEPT ![r] = NoWrite]
    /\ UNCHANGED <<lifeVars, req, found, now, resp, invoked, stderr, loggers, mySlog>>

\* A statement that writes `data` to os.Stdout in one Write call and goes on at `ret`.
StartWrite(r, kind, data, ret) ==
    /\ wr' = [wr EXCEPT ![r] = [kind |-> kind, data |-> data, ret |-> ret]]
    /\ pc' = [pc EXCEPT ![r] = "os.Stdout.Write"]

\* What every handler does after w.Write: slog.Error and return on an error,
\* fmt.Printf("%d bytes written\n", n) otherwise.
AfterWrite(r, ok) ==
    IF ok
    THEN /\ StartWrite(r, "Printf", <<"bytes written">>, "done")
         /\ UNCHANGED stderr
    ELSE /\ stderr' = stderr + 1
         /\ pc' = [pc EXCEPT ![r] = "done"]
         /\ UNCHANGED wr

\* The handler entered for request r, with the (w, r) it was called with.
Enter(r, h) == invoked' = [invoked EXCEPT ![r] = Append(@, [h |-> h, w |-> r, req |-> r])]

\* ------------------------------------------------------------ serving a request

\* The server accepted a connection and read a request from it.
Arrive(r, s, method, path, accept, addr) ==
    /\ proc = "running"
    /\ pc[r] = "idle"
    /\ lpc[s] = "ListenAndServe"
    /\ req' = [req EXCEPT ![r] = [server |-> s, method |-> method, path |-> path, accept |-> accept, remoteAddr |-> addr]]
    /\ pc' = [pc EXCEPT ![r] = "serve"]
    /\ UNCHANGED <<lifeVars, found, now, resp, invoked, wr, stdout, stdoutLock, stderr, loggers, mySlog>>

\* The Accept header a request carries: absent, or one value.
AcceptHeaders == {<<>>} \cup {<<v>> : v \in AcceptValues}

\* Any request on any server, one at a time.
ArriveAny ==
    /\ pc[1] = "idle"
    /\ \E s \in Servers, method \in Methods, path \in Paths, accept \in AcceptHeaders :
          Arrive(1, s, method, path, accept, RemoteAddr(1))

\* Requests for /log on :8083, any number at once.
ArriveLog(r) ==
    /\ pc[r] = "idle"
    /\ Arrive(r, "s8083", "GET", <<"log">>, <<>>, RemoteAddr(r))

\* One plain request for each route, while main and the listeners run.
ArriveEarly ==
    /\ pc[1] = "idle"
    /\ \E s \in Servers, path \in {<<"">>, <<"hello", "Ada">>, <<"log">>} :
          Arrive(1, s, "GET", path, <<>>, RemoteAddr(1))

\* The server calls its Handler: GetHandler{} on :8080, the mux elsewhere,
\* which finds the handler of the request.
Serve(r) ==
    /\ proc = "running"
    /\ pc[r] = "serve"
    /\ IF req[r].server = "s8080"
       THEN /\ pc' = [pc EXCEPT ![r] = "GetHandler"]
            /\ UNCHANGED found
       ELSE LET f == findHandler(routes[req[r].server], req[r].method, req[r].path)
            IN  /\ found' = [found EXCEPT ![r] = f]
                /\ pc' = [pc EXCEPT ![r] = f.handler]
    /\ UNCHANGED <<lifeVars, req, now, resp, invoked, wr, stdout, stdoutLock, stderr, loggers, mySlog>>

\* net/http's own handlers: RedirectHandler (301), NotFoundHandler (404), and
\* the handler answering 405.
LibraryHandler(r) ==
    /\ proc = "running"
    /\ pc[r] \in {"Redirect", "NotFound", "MethodNotAllowed"}
    /\ resp' = [resp EXCEPT ![r] =
                 CASE pc[r] = "Redirect" ->
                        [Write(WriteHeader(@, 301), IF req[r].method = "GET" THEN <<Text("Moved Permanently")>> ELSE <<>>, "Redirect", TRUE)
                           EXCEPT !.location = found[r].location]
                   [] pc[r] = "NotFound" -> Write(WriteHeader(@, 404), <<Text("404 page not found")>>, "NotFound", TRUE)
                   [] OTHER -> Write(WriteHeader(@, 405), <<Text("Method Not Allowed")>>, "MethodNotAllowed", TRUE)]
    /\ pc' = [pc EXCEPT ![r] = "done"]
    /\ UNCHANGED <<lifeVars, req, found, now, invoked, wr, stdout, stdoutLock, stderr, loggers, mySlog>>

\* GetHandler.ServeHTTP: status 200 and the local time in RFC 3339.
GetHandlerServeHTTP(r, unix, offset, ok) ==
    /\ proc = "running"
    /\ pc[r] = "GetHandler"
    /\ Enter(r, "GetHandler")
    /\ now' = [now EXCEPT ![r] = Time(unix, offset)]
    /\ resp' = [resp EXCEPT ![r] = Write(WriteHeader(@, 200), FormatRFC3339(Time(unix, offset)), "GetHandler", ok)]
    /\ AfterWrite(r, ok)
    /\ UNCHANGED <<lifeVars, req, found, stdout, stdoutLock, loggers, mySlog>>

JSON == <<"J", "S", "O", "N">>

\* The handler of "/", first statements: accept := r.Header.Get("Accept");
\* fmt.Println(accept).
TimeAccept(r) ==
    /\ proc = "running"
    /\ pc[r] = "time"
    /\ Enter(r, "time")
    /\ StartWrite(r, "Println", <<HeaderGet(req[r].accept)>>, "time.Now")
    /\ UNCHANGED <<lifeVars, req, found, now, resp, stdout, stdoutLock, stderr, loggers, mySlog>>

\* The response chosen by comparing the Accept value itself with "JSON".
TimeResponseExact(accept, t) ==
    IF accept = JSON THEN buildJson(t) ELSE FormatRFC3339(t)

\* The response of the handler of "/": the UTC time in RFC 3339, or
\* buildJson's output when the upper-cased Accept value is "JSON".
TimeResponse(accept, t) ==
    IF ToUpper(accept) = JSON THEN buildJson(t) ELSE FormatRFC3339(t)

\* The handler of "/", the rest: the time is read, the response chosen and
\* written with status 200.
TimeRespond(r, unix, offset, ok) ==
    /\ proc = "running"
    /\ pc[r] = "time.Now"
    /\ now' = [now EXCEPT ![r] = UTC(Time(unix, offset))]
    /\ resp' = [resp EXCEPT ![r] =
                 Write(WriteHeader(@, 200), TimeResponse(HeaderGet(req[r].accept), UTC(Time(unix, offset))), "time", ok)]
    /\ AfterWrite(r, ok)
    /\ UNCHANGED <<lifeVars, req, found, invoked, stdout, stdoutLock, loggers, mySlog>>

\* The handler of "/hello/{name}": "Hello " + r.PathValue("name").
Hello(r, ok) ==
    /\ proc = "running"
    /\ pc[r] = "hello"
    /\ Enter(r, "hello")
    /\ resp' = [resp EXCEPT ![r] = Write(@, <<Text("Hello " \o PathValue(found[r].matches, "name"))>>, "hello", ok)]
    /\ AfterWrite(r, ok)
    /\ UNCHANGED <<lifeVars, req, found, now, stdout, stdoutLock, loggers, mySlog>>

\* ------------------------------------------------------------ log/slog

\* slog.LevelInfo, the minimum level of the handler options.
LevelInfo == 0

\* Logger.Info's alternating keys and values, as attributes; a value without
\* a key gets the key "!BADKEY".
RECURSIVE argsToAttrs(_)
argsToAttrs(args) ==
    IF args = <<>> THEN <<>>
    ELSE IF Len(args) = 1 THEN <<[key |-> "!BADKEY", value |-> args[1]]>>
    ELSE <<[key |-> args[1], value |-> args[2]]>> \o argsToAttrs(SubSeq(args, 3, Len(args)))

\* slog.String
String(key, value) == [key |-> key, value |-> value]

\* The line the JSON handler writes for a record: level, message, then the
\* attributes in order (the time attribute is left out).
JSONLine(level, msg, attrs) ==
    <<[key |-> "level", value |-> IF level = LevelInfo THEN "INFO" ELSE "OTHER"], [key |-> "msg", value |-> msg]>> \o attrs

\* Handler.Enabled under HandlerOptions{Level: slog.LevelInfo}.
Enabled(level) == level >= LevelInfo

\* IpAddressLogger's handler, first statements: a new JSON handler on os.Stdout
\* and a new logger for this request.
NewLogger(r) ==
    /\ proc = "running"
    /\ pc[r] = "IpAddressLogger"
    /\ Enter(r, "IpAddressLogger")
    /\ loggers' = loggers + 1
    /\ mySlog' = [mySlog EXCEPT ![r] = loggers + 1]
    /\ pc' = [pc EXCEPT ![r] = "mySlog.Info"]
    /\ UNCHANGED <<lifeVars, req, found, now, resp, wr, stdout, stdoutLock, stderr>>

\* mySlog.Info("slower logging with alternating keys", "ip:", r.RemoteAddr)
Info(r) ==
    /\ proc = "running"
    /\ pc[r] = "mySlog.Info"
    /\ IF Enabled(LevelInfo)
       THEN StartWrite(r, "record", JSONLine(LevelInfo, "slower logging with alternating keys", argsToAttrs(<<"ip:", req[r].remoteAddr>>)), "mySlog.LogAttrs")
       ELSE pc' = [pc EXCEPT ![r] = "mySlog.LogAttrs"] /\ UNCHANGED wr
    /\ UNCHANGED <<lifeVars, req, found, now, resp, invoked, stdout, stdoutLock, stderr, loggers, mySlog>>

\* LogAttrs with the emission lost: the statement goes on without writing.
LogAttrsSilent(r) ==
    /\ proc = "running"
    /\ pc[r] = "mySlog.LogAttrs"
    /\ pc' = [pc EXCEPT ![r] = "h.ServeHTTP"]
    /\ UNCHANGED <<lifeVars, req, found, now, resp, invoked, wr, stdout, stdoutLock, stderr, loggers, mySlog>>

\* mySlog.LogAttrs(r.Context(), slog.LevelInfo, "faster logging with LogAttrs()", slog.String("ip:", r.RemoteAddr))
LogAttrs(r) ==
    /\ proc = "running"
    /\ pc[r] = "mySlog.LogAttrs"
    /\ IF Enabled(LevelInfo)
       THEN StartWrite(r, "record", JSONLine(LevelInfo, "faster logging with LogAttrs()", <<String("ip:", req[r].remoteAddr)>>), "h.ServeHTTP")
       ELSE pc' = [pc EXCEPT ![r] = "h.ServeHTTP"] /\ UNCHANGED wr
    /\ UNCHANGED <<lifeVars, req, found, now, resp, invoked, stdout, stdoutLock, stderr, loggers, mySlog>>

\* The middleware returning without calling the wrapped handler.
CallWrappedSkipped(r) ==
    /\ proc = "running"
    /\ pc[r] = "h.ServeHTTP"
    /\ pc' = [pc EXCEPT ![r] = "done"]
    /\ UNCHANGED <<lifeVars, req, found, now, resp, invoked, wr, stdout, stdoutLock, stderr, loggers, mySlog>>

\* h.ServeHTTP(w, r): the wrapped handler is called with the middleware's own
\* writer and request.
CallWrapped(r) ==
    /\ proc = "running"
    /\ pc[r] = "h.ServeHTTP"
    /\ Enter(r, "logged")
    /\ pc' = [pc EXCEPT ![r] = "logged"]
    /\ UNCHANGED <<lifeVars, req, found, now, resp, wr, stdout, stdoutLock, stderr, loggers, mySlog>>

\* The handler wrapped for "/log": w.Write("logged IP"); an error is logged
\* and the Printf follows in either case.
Logged(r, ok) ==
    /\ proc = "running"
    /\ pc[r] = "logged"
    /\ LET call == invoked[r][Len(invoked[r])]
       IN  resp' = [resp EXCEPT ![call.w] = Write(@, <<Text("logged IP")>>, "logged", ok)]
    /\ stderr' = IF ok THEN stderr ELSE stderr + 1
    /\ StartWrite(r, "Printf", <<"bytes written">>, "done")
    /\ UNCHANGED <<lifeVars, req, found, now, invoked, stdout, stdoutLock, loggers, mySlog>>

\* ------------------------------------------------------------ specifications

\* The registrations and go statements among the first k statements of main.
RoutesAfter(k) ==
    [s \in Servers |-> {Registers(MainProgram[i]).pattern : i \in {j \in 1..k : Registers(MainProgram[j]).server = s}}]
StartedAfter(k) == {GoServer(MainProgram[i]) : i \in 1..k} \ {""}

NoRequests ==
    /\ req = [r \in Reqs |-> NoReq]
    /\ pc = [r \in Reqs |-> "idle"]
    /\ found = [r \in Reqs |-> NoFound]
    /\ now = [r \in Reqs |-> NoTime]
    /\ resp = [r \in Reqs |-> NewResponse]
    /\ invoked = [r \in Reqs |-> <<>>]
    /\ wr = [r \in Reqs |-> NoWrite]
    /\ stdout = <<>>
    /\ stdoutLock = 0
    /\ stderr = 0
    /\ loggers = 0
    /\ mySlog = [r \in Reqs |-> 0]

\* The process starts: main is at its first statement.
Init ==
    /\ mainPc = 1
    /\ wgCounter = 0
    /\ routes = [s \in Servers |-> {}]
    /\ lpc = [s \in Servers |-> "unstarted"]
    /\ lerr = [s \in Servers |-> "nil"]
    /\ proc = "running"
    /\ NoRequests

\* main has run up to wg.Wait and every listener is serving.
InitServing ==
    /\ mainPc = Len(MainProgram)
    /\ wgCounter = WgDelta
    /\ routes = RoutesAfter(Len(MainProgram))
    /\ lpc = [s \in Servers |-> IF s \in StartedAfter(Len(MainProgram)) THEN "ListenAndServe" ELSE "unstarted"]
    /\ lerr = [s \in Servers |-> "nil"]
    /\ proc = "running"
    /\ NoRequests

\* The steps of a request's serving goroutine; time.Now() reads one of `clock`.
Handle(r, clock) ==
    \/ Serve(r)
    \/ LibraryHandler(r)
    \/ \E t \in clock, ok \in BOOLEAN : GetHandlerServeHTTP(r, t.unix, t.offset, ok)
    \/ TimeAccept(r)
    \/ \E t \in clock, ok \in BOOLEAN : TimeRespond(r, t.unix, t.offset, ok)
    \/ \E ok \in BOOLEAN : Hello(r, ok)
    \/ NewLogger(r)
    \/ Info(r)
    \/ LogAttrs(r)
    \/ CallWrapped(r)
    \/ \E ok \in BOOLEAN : Logged(r, ok)
    \/ WriteFirst(r)
    \/ WriteRest(r)

\* The steps of a request to /log.
HandleLog(r) ==
    \/ Serve(r)
    \/ NewLogger(r)
    \/ Info(r)
    \/ LogAttrs(r)
    \/ CallWrapped(r)
    \/ \E ok \in BOOLEAN : Logged(r, ok)
    \/ WriteFirst(r)
    \/ WriteRest(r)

\* The whole process: main, the listeners, and a request on a serving listener.
Next ==
    \/ Main
    \/ \E s \in Servers, err \in ServeErrors : ListenAndServeReturns(s, err)
    \/ \E s \in Servers : WgDone(s)
    \/ \E s \in Servers : CheckErr(s)
    \/ ArriveEarly
    \/ Handle(1, {Time(1709633730, 3600)})

Spec == Init /\ [][Next]_vars

\* One request of any shape on the running servers.
NextReq == ArriveAny \/ Handle(1, {Time(unix, offset) : unix \in Instants, offset \in LocalOffsets})
SpecReq == InitServing /\ [][NextReq]_vars

\* Concurrent requests to /log on the running servers.
NextLog == \E r \in Reqs : ArriveLog(r) \/ HandleLog(r)
SpecLog == InitServing /\ [][NextLog]_vars

\* ------------------------------------------------------------ the logging middleware

\* The requests the middleware received, and those whose wrapped handler has started.
ThroughMiddleware(r) == \E i \in 1..Len(invoked[r]) : invoked[r][i].h = "IpAddressLogger"
WrappedCalls(r) == {i \in 1..Len(invoked[r]) : invoked[r][i].h = "logged"}
WrappedStarted(r) == WrappedCalls(r) # {}

\* The log records of request r that os.Stdout holds in full.
RecordsOf(r) == {i \in 1..Len(stdout) : stdout[i].r = r /\ stdout[i].kind = "record" /\ stdout[i].part = 2}

\* C1 as stated: once the wrapped handler of a request has started, and until
\* the request completes, exactly one log record has been emitted for it.
C1_OneRecordBeforeHandler ==
    \A r \in Reqs : ThroughMiddleware(r) /\ WrappedStarted(r) => Cardinality(RecordsOf(r)) = 1

\* C1 amended: the middleware emits exactly two records per request (Info's and
\* LogAttrs'), both before the wrapped handler starts: from the handler's start
\* to the request's completion the count is 2, and it is never more than 2.
C1_TwoRecordsBeforeHandler ==
    \A r \in Reqs :
        /\ Cardinality(RecordsOf(r)) <= 2
        /\ ThroughMiddleware(r) /\ (WrappedStarted(r) \/ pc[r] = "done") => Cardinality(RecordsOf(r)) = 2

C1_Witness ==
    \E r \in Reqs : ThroughMiddleware(r) /\ pc[r] = "done" /\ Cardinality(RecordsOf(r)) = 2

\* C2: the middleware is a pass-through: it calls the wrapped handler at most
\* once, exactly once by the time the request completes (whether or not the
\* write failed), with its own writer and request, and the response is written
\* by the wrapped handler alone.
C2_PassThrough ==
    \A r \in Reqs :
        ThroughMiddleware(r) =>
            /\ Cardinality(WrappedCalls(r)) <= 1
            /\ pc[r] = "done" => Cardinality(WrappedCalls(r)) = 1
            /\ \A i \in WrappedCalls(r) : invoked[r][i].w = r /\ invoked[r][i].req = r
            /\ resp[r].by \in {"", "logged"}
            /\ resp[r].by = "logged" => WrappedStarted(r)
            /\ pc[r] = "done" => resp[r].status = 200 /\ resp[r].body = <<Text("logged IP")>>

C2_Witness ==
    \E r \in Reqs : ThroughMiddleware(r) /\ pc[r] = "done" /\ resp[r].failed /\ Cardinality(WrappedCalls(r)) = 1

\* Chunk i of os.Stdout opens a write that chunk i + 1 closes, or that is still
\* under way at the end of the stream.
Opens(i) ==
    /\ stdout[i].part = 1
    /\ IF i = Len(stdout) THEN stdoutLock = stdout[i].r
       ELSE stdout[i + 1].part = 2 /\ stdout[i + 1].r = stdout[i].r /\ stdout[i + 1].kind = stdout[i].kind
Closes(i) == stdout[i].part = 2 /\ i > 1 /\ Opens(i - 1)

\* The line a write left on os.Stdout, given the index of its last chunk.
Line(i) == stdout[i - 1].data \o stdout[i].data

\* A whole record of request r: level, message, and r's own client address.
WholeRecord(i, r) ==
    /\ Closes(i)
    /\ Len(Line(i)) = 3
    /\ Line(i)[1] = [key |-> "level", value |-> "INFO"]
    /\ Line(i)[2].key = "msg"
    /\ Line(i)[3].key = "ip:"
    /\ Line(i)[3].value = req[r].remoteAddr
    /\ Line(i)[3].value # ""

\* Every write to os.Stdout is in the stream as one piece: nothing is
\* truncated and nothing of another write lies inside it.
StdoutAtomic == \A i \in 1..Len(stdout) : Opens(i) \/ Closes(i)

\* C3 as stated: under every interleaving each completed request has produced
\* exactly one record, whole and carrying its own client address.
C3_OneWholeRecordEach ==
    /\ StdoutAtomic
    /\ \A r \in Reqs : pc[r] = "done" => Cardinality(RecordsOf(r)) = 1 /\ \A i \in RecordsOf(r) : WholeRecord(i, r)

\* C3 amended: under every interleaving each completed request has produced
\* exactly two records, each whole (not truncated, not interleaved with another
\* write) and carrying the request's own non-empty client address.
C3_TwoWholeRecordsEach ==
    /\ StdoutAtomic
    /\ \A r \in Reqs : \A i \in RecordsOf(r) : WholeRecord(i, r)
    /\ \A r \in Reqs : pc[r] = "done" => Cardinality(RecordsOf(r)) = 2

\* Two requests completed whose records alternate in the stream.
C3_Witness ==
    \E r1, r2 \in Reqs :
        /\ r1 # r2 /\ pc[r1] = "done" /\ pc[r2] = "done"
        /\ \E i, j, k \in 1..Len(stdout) :
              i < j /\ j < k /\ i \in RecordsOf(r1) /\ j \in RecordsOf(r2) /\ k \in RecordsOf(r1)

\* C4: however many requests the middleware has served, one logger instance
\* has been created.
C4_OneLoggerInstance == (\E r \in Reqs : mySlog[r] # 0) => loggers = 1

\* ------------------------------------------------------------ the time endpoint

\* Case-insensitive equality with "JSON": the same length and, character by
\* character, the same letter whatever its case (s, S and the long s are one
\* letter).
FoldRune(c) ==
    CASE c \in {"J", "j"} -> "j" [] c \in {"S", "s", "LONG_S"} -> "s"
      [] c \in {"O", "o"} -> "o" [] c \in {"N", "n"} -> "n" [] OTHER -> c
EqualFoldJSON(v) == Len(v) = 4 /\ \A i \in 1..4 : FoldRune(v[i]) = <<"j", "s", "o", "n">>[i]

\* The request carries an Accept header whose value is "JSON" in some case.
AcceptsJSON(r) == req[r].accept # <<>> /\ EqualFoldJSON(req[r].accept[1])

\* The civil UTC time of the instants of the model, from the calendar.
Calendar(unix) ==
    CASE unix = 0 -> <<1970, 1, 1, 0, 0, 0, "Thursday", "January">>
      [] unix = 951782399 -> <<2000, 2, 28, 23, 59, 59, "Monday", "February">>
      [] unix = 1709633730 -> <<2024, 3, 5, 10, 15, 30, "Tuesday", "March">>
      [] unix = 1735689599 -> <<2024, 12, 31, 23, 59, 59, "Tuesday", "December">>

\* The body reads as yyyy-mm-ddThh:mm:ssZ and says the UTC time of the instant.
IsRFC3339UTC(body, unix) ==
    LET c == Calendar(unix)
    IN  /\ Len(body) = 12
        /\ \A i \in 1..6 : body[2 * i - 1] = [t |-> "num", v |-> c[i], w |-> IF i = 1 THEN 4 ELSE 2]
        /\ <<body[2].v, body[4].v, body[6].v, body[8].v, body[10].v, body[12].v>> = <<"-", "-", "T", ":", ":", "Z">>
        /\ \A i \in 1..6 : body[2 * i].t = "punct"

TimeKeys == <<"day_of_week", "day_of_month", "month", "year", "hour", "minute", "second">>

\* The body reads as a JSON object: braces around members "key":value
\* separated by commas.
IsJsonObject(body) ==
    /\ Len(body) >= 2
    /\ body[1] = Punct("{") /\ body[Len(body)] = Punct("}")
    /\ (Len(body) - 1) % 4 = 0
    /\ \A i \in 2..(Len(body) - 1) :
          CASE i % 4 = 2 -> body[i].t = "string"
            [] i % 4 = 3 -> body[i] = Punct(":")
            [] i % 4 = 0 -> body[i].t \in {"string", "num"}
            [] OTHER -> body[i] = Punct(",")

\* The body is the JSON object with exactly the seven keys, saying the UTC
\* time of the instant.
IsTimeJson(body, unix) ==
    LET c == Calendar(unix)
    IN  /\ IsJsonObject(body)
        /\ Len(body) = 4 * Len(TimeKeys) + 1
        /\ \A k \in 1..Len(TimeKeys) : body[4 * k - 2] = Str(TimeKeys[k])
        /\ body[4] = Str(c[7]) /\ body[12] = Str(c[8])
        /\ <<body[8].v, body[16].v, body[20].v, body[24].v, body[28].v>> = <<c[3], c[1], c[4], c[5], c[6]>>

\* C5: a completed request to the handler of "/" on the mux server has status
\* 200; its body is the JSON object of the time when the Accept value is
\* "JSON" in any case, and otherwise, an absent header included, the RFC 3339
\* UTC timestamp and no JSON object.
C5_TimeEndpoint ==
    \A r \in Reqs :
        pc[r] = "done" /\ req[r].server = "s8081" /\ found[r].handler = "time" =>
            /\ resp[r].status = 200
            /\ resp[r].by = "time"
            /\ IF AcceptsJSON(r)
               THEN IsTimeJson(resp[r].body, now[r].unix)
               ELSE IsRFC3339UTC(resp[r].body, now[r].unix) /\ ~IsJsonObject(resp[r].body)

\* A mixed-case "JSON" answered with the JSON object.
C5_Witness ==
    \E r \in Reqs :
        /\ pc[r] = "done" /\ found[r].handler = "time" /\ req[r].accept = <<(<<"J", "s", "o", "N">>)>>
        /\ IsTimeJson(resp[r].body, 1709633730)

\* ------------------------------------------------------------ routing

\* The completed requests on a server whose handler is a ServeMux.
Routed(r) == pc[r] = "done" /\ req[r].server \in {"s8081", "s8083"}

\* Some pattern registered on the request's server matches its path.
PathRegistered(r) == \E p \in routes[req[r].server] : matchPath(p.segs, req[r].path)

\* The path is in canonical form: no empty, "." or ".." segment before its end.
Canonical(path) ==
    /\ \A i \in 1..Len(path) : path[i] \notin {".", ".."}
    /\ \A i \in 1..(Len(path) - 1) : path[i] # ""

\* C6 as stated, with the methods of the route surface (GET on each route): a
\* path no pattern matches is answered not-found, a matched path under
\* another method is answered method-not-allowed, and no application handler
\* runs in either case.
C6_NotFoundOrMethodNotAllowed ==
    \A r \in Reqs :
        Routed(r) =>
            /\ ~PathRegistered(r) => resp[r].status = 404 /\ invoked[r] = <<>>
            /\ PathRegistered(r) /\ req[r].method # "GET" => resp[r].status = 405 /\ invoked[r] = <<>>

\* C6 amended: a request whose canonical path matches no registered pattern is
\* answered not-found and no application handler runs; a path that is not
\* canonical is redirected (301) to its cleaned form unless the method is
\* CONNECT, again without an application handler; and since every pattern is
\* registered without a method, a request whose path matches a pattern is
\* dispatched to that pattern's handler whatever its method: method-not-allowed
\* is never answered.
C6_NotFoundNeverMethodNotAllowed ==
    \A r \in Reqs :
        Routed(r) =>
            /\ resp[r].status # 405
            /\ IF Canonical(req[r].path) \/ req[r].method = "CONNECT"
               THEN IF PathRegistered(r)
                    THEN Len(invoked[r]) >= 1 /\ invoked[r][1].h = found[r].handler /\ resp[r].status = 200
                    ELSE resp[r].status = 404 /\ invoked[r] = <<>>
               ELSE resp[r].status = 301 /\ invoked[r] = <<>> /\ resp[r].location = cleanPath(req[r].path)

\* POST /log on :8083 has been dispatched to the handler registered for "/log".
C6_Witness ==
    \E r \in Reqs :
        /\ Routed(r) /\ req[r].server = "s8083" /\ req[r].method = "POST" /\ req[r].path = <<"log">>
        /\ resp[r].status = 200 /\ invoked[r][1].h = "IpAddressLogger"

\* The completed requests for /hello/v on the mux of :8081.
HelloRequest(r) ==
    /\ pc[r] = "done" /\ req[r].server = "s8081"
    /\ Len(req[r].path) = 2 /\ req[r].path[1] = "hello" /\ req[r].path[2] # ""

\* The greeting handler served r with name bound to v: status 200, body "Hello " + v.
Greeted(r, v) ==
    /\ found[r].handler = "hello"
    /\ found[r].matches = [name \in {"name"} |-> v]
    /\ invoked[r] = <<[h |-> "hello", w |-> r, req |-> r]>>
    /\ resp[r].status = 200
    /\ resp[r].body = <<Text("Hello " \o v)>>

\* C7 as stated: for every non-empty segment v, /hello/v is greeted with v.
C7_HelloAnySegment == \A r \in Reqs : HelloRequest(r) => Greeted(r, req[r].path[2])

\* C7 amended: for every non-empty segment v other than "." and "..",
\* /hello/v is dispatched to the greeting handler with name bound to v and
\* answered 200 with body "Hello " followed by v.
C7_HelloPlainSegment ==
    \A r \in Reqs : HelloRequest(r) /\ req[r].path[2] \notin {".", ".."} => Greeted(r, req[r].path[2])

C7_Witness == \E r \in Reqs : HelloRequest(r) /\ req[r].method = "GET" /\ Greeted(r, "Ada")

\* ------------------------------------------------------------ start-up and shut-down

\* The error is the "server closed" sentinel, bare or wrapped.
IsSentinel(err) == err \in {"http: Server closed", "serve: http: Server closed"}

\* C8: when a listener's serve call has returned and its error is checked, the
\* process goes on, with the other listeners where they were, if the error is
\* nil or the sentinel, and is terminated if it is any other error; and the
\* process is only ever terminated by a listener that got such an error.
C8_OnlyOtherErrorsTerminate ==
    /\ [][\A s \in Servers :
            lpc[s] = "check" /\ lpc'[s] # "check" =>
                IF lerr[s] = "nil" \/ IsSentinel(lerr[s])
                THEN proc' = "running" /\ lpc'[s] = "returned" /\ \A t \in Servers \ {s} : lpc'[t] = lpc[t]
                ELSE proc' = "panicked"]_vars
    /\ [](proc # "running" => \E s \in Servers : lpc[s] = "panicked" /\ lerr[s] # "nil" /\ ~IsSentinel(lerr[s]))

\* One listener has returned with the sentinel while another still serves.
C8_Witness ==
    \E s, t \in Servers :
        /\ lpc[s] = "returned" /\ lerr[s] = "serve: http: Server closed"
        /\ lpc[t] = "ListenAndServe" /\ proc = "running"

\* The routes of each server as fixed at start-up.
StartupRoutes == [s \in Servers |-> CASE s = "s8081" -> {RootPattern, HelloPattern} [] s = "s8083" -> {LogPattern} [] OTHER -> {}]

\* C9: once a server's listener has been started, and whenever a request is
\* being resolved or handled on it, its route table is the one fixed at
\* start-up; the table never changes after the listener's start.
C9_RoutesFixedBeforeListening ==
    /\ \A s \in Servers : lpc[s] # "unstarted" => routes[s] = StartupRoutes[s]
    /\ \A r \in Reqs : pc[r] # "idle" => routes[req[r].server] = StartupRoutes[req[r].server]

\* A request is in the greeting handler while main has yet to register "/log".
C9_Witness == \E r \in Reqs : pc[r] = "hello" /\ routes["s8083"] = {} /\ mainPc <= Len(MainProgram)

\* C10: once every listener goroutine has called wg.Done, the counter is 0
\* (so that wg.Wait returns), and it is never negative.
C10_WaitGroupDrains ==
    /\ wgCounter >= 0
    /\ (\A s \in Servers : lpc[s] \in {"check", "returned"}) => wgCounter = 0

====
